---- MODULE Spec2Model ----
(***************************************************************************)
(* Model of iLaurx/fuzzy-photo: the Mamdani fuzzy system of                *)
(* fuzzy_system.py (three antecedents, one consequent, eight rules,        *)
(* centroid defuzzification through scikit-fuzzy's control API) and the    *)
(* Flask endpoint of app.py that feeds it.                                 *)
(*                                                                         *)
(* Numbers.  The program computes in binary floating point; the model      *)
(* computes the same expressions exactly, in fixed point:                  *)
(*   - a crisp input or a point of a universe is an integer count of       *)
(*     1/Steps units (the value 5.0 is 5 * Steps);                         *)
(*   - a membership degree is an integer count of 1/DegOne units;          *)
(*   - a defuzzified quality is a reduced fraction [num, den].             *)
(* Every division below is exact on the grid (see DegOne).                 *)
(***************************************************************************)
EXTENDS Integers, Sequences, FiniteSets, TLC

\* Grid points per unit of the input universe at which inputs are drawn.
Steps == 2
\* How far outside [0, 10] the drawn inputs go (in whole units).
Margin == 5

\* np.arange(0, 10.1, 0.1): the input universe runs from 0 to 10.
InMin == 0
InMax == 10
\* np.arange(0, 100.1, 1): the output universe is the integers 0..100.
OutMax == 100

\* Common denominator of every membership degree on the grid: the input
\* terms have slopes 1/5 per unit (1/(5*Steps) per grid step), the output
\* terms slopes 1/20 and 1/30 per unit, and lcm(5, 20, 30) = 60.
DegOne == 60 * Steps

Max2(a, b) == IF a >= b THEN a ELSE b
Min2(a, b) == IF a <= b THEN a ELSE b

RECURSIVE GCD(_, _)
GCD(a, b) == IF b = 0 THEN a ELSE GCD(b, a % b)

\* The three antecedents and the consequent's terms.
Antecedents == {"nitidez", "contraste", "exposicion"}
OutTerms == {"pobre", "aceptable", "excelente"}

----------------------------------------------------------------------------
(* Membership functions *)

\* fuzz.trimf(x, [a, b, c]) at one point x (x, a, b, c in grid units):
\* 1 at x = b, linear on (a, b) and (b, c), 0 elsewhere; a side of zero
\* width (a = b or b = c) is skipped, so no division by zero.
trimf(x, a, b, c) ==
    IF x = b THEN DegOne
    ELSE IF a # b /\ a < x /\ x < b THEN ((x - a) * DegOne) \div (b - a)
    ELSE IF b # c /\ b < x /\ x < c THEN ((c - x) * DegOne) \div (c - b)
    ELSE 0

\* fuzz.trapmf(x, [a, b, c, d]): ones, then trimf [a, b, b] on x <= b,
\* trimf [c, c, d] on x >= c, zero on x < a and on x > d.
trapmf(x, a, b, c, d) ==
    IF x < a \/ x > d THEN 0
    ELSE IF x >= c THEN trimf(x, c, c, d)
    ELSE IF x <= b THEN trimf(x, a, b, b)
    ELSE DegOne

\* The antecedent terms: all three antecedents carry the same three
\* triangles over [0, 10], under different names.
low(v)  == trimf(v, 0, 0, 5 * Steps)
mid(v)  == trimf(v, 0, 5 * Steps, 10 * Steps)
high(v) == trimf(v, 5 * Steps, 10 * Steps, 10 * Steps)

\* np.arange(0, 100.1, 1), in whole units.
universo_salida == 0..OutMax

\* calidad_estetica_mf with 'excelente' given the control points of
\* 'aceptable'.
calidad_estetica_mf_copied ==
    [pobre     |-> [i \in universo_salida |-> trapmf(i, 0, 0, 30, 50)],
     aceptable |-> [i \in universo_salida |-> trimf(i, 30, 60, 90)],
     excelente |-> [i \in universo_salida |-> trimf(i, 30, 60, 90)]]

\* The consequent's terms, sampled on the output universe when the system
\* is built.
calidad_estetica_mf ==
    [pobre     |-> [i \in universo_salida |-> trapmf(i, 0, 0, 30, 50)],
     aceptable |-> [i \in universo_salida |-> trimf(i, 30, 60, 90)],
     excelente |-> [i \in universo_salida |-> trapmf(i, 70, 90, 100, 100)]]


\* skfuzzy interp_membership(x, xmf, xx) on a sampled term xmf: linear
\* interpolation between the two samples around grid point m.
interp_membership(xmf, m) ==
    IF m % Steps = 0 THEN xmf[m \div Steps]
    ELSE xmf[m \div Steps]
         + ((xmf[m \div Steps + 1] - xmf[m \div Steps]) * (m % Steps)) \div Steps

----------------------------------------------------------------------------
(* Rules *)

\* Activation of each rule for crisp inputs n, c, e (already inside the
\* universe): | is max, & is min.
\* rule1 reading nitidez['alta'] where the code reads nitidez['baja'].
rule1_alta(n, c, e) == Max2(high(n), low(c))
\* rule3 without its exposicion['brillante'] operand.
rule3_oscura(n, c, e) == low(e)

rule1(n, c, e) == Max2(low(n), low(c))
rule2(n, c, e) == Min2(high(n), high(c))
rule3(n, c, e) == Max2(low(e), high(e))
rule4(n, c, e) == Min2(Min2(mid(n), mid(c)), mid(e))
rule5(n, c, e) == Min2(Min2(high(n), mid(c)), mid(e))
rule6(n, c, e) == Max2(mid(n), mid(c))
rule7(n, c, e) == Min2(low(n), low(e))
rule8(n, c, e) == Min2(high(c), high(e))

\* calidad_ctrl with rule2 left out of the list of rules.
calidad_ctrl_sin_rule2(n, c, e) ==
    [pobre     |-> Max2(Max2(Max2(low(n), low(c)), Max2(low(e), high(e))),
                        Max2(Min2(low(n), low(e)), Min2(high(c), high(e)))),
     aceptable |-> Max2(Min2(Min2(mid(n), mid(c)), mid(e)), Max2(mid(n), mid(c))),
     excelente |-> Min2(Min2(high(n), mid(c)), mid(e))]

\* ControlSystem([rule1..rule8]): the activations of the rules that share a
\* consequent term are accumulated with max into that term's cut.
calidad_ctrl(n, c, e) ==
    [pobre     |-> Max2(Max2(rule1(n, c, e), rule3(n, c, e)),
                        Max2(rule7(n, c, e), rule8(n, c, e))),
     aceptable |-> Max2(rule4(n, c, e), rule6(n, c, e)),
     excelente |-> Max2(rule2(n, c, e), rule5(n, c, e))]

----------------------------------------------------------------------------
(* Defuzzification *)

\* skfuzzy interp_universe_fast(x, xmf, y): the points where the sampled
\* term xmf crosses the level y, one per sample interval whose ends lie on
\* different sides of it.
interp_universe(xmf, y) ==
    { i * Steps + ((y - xmf[i]) * Steps) \div (xmf[i + 1] - xmf[i]) :
      i \in { j \in 0..(OutMax - 1) :
                IF y = 0 THEN (xmf[j] > y) # (xmf[j + 1] > y)
                         ELSE (xmf[j] >= y) # (xmf[j + 1] >= y) } }

\* A quality value, or the exception the library raises instead of one.
Reduced(n, d, g) == [exc |-> "none", num |-> n \div g, den |-> d \div g]
Frac(n, d) == Reduced(n, d, GCD(n, d))
Raised(e)  == [exc |-> e, num |-> 0, den |-> 1]

Add2(l, r) == <<l[1] + r[1], l[2] + r[2]>>

RECURSIVE SumRange(_, _, _)
\* Sum of seg[m] over the integers m of lo..hi, by halving.
SumRange(seg, lo, hi) ==
    IF lo > hi THEN <<0, 0>>
    ELSE IF lo = hi THEN seg[lo]
    ELSE Add2(SumRange(seg, lo, (lo + hi) \div 2),
              SumRange(seg, (lo + hi) \div 2 + 1, hi))

\* The upsampled universe: the samples of the output universe and the
\* added crossing points.
in_universe(added, m) == m % Steps = 0 \/ m \in added
next_point(added, m) ==
    CHOOSE q \in (m + 1)..(m + Steps) :
        in_universe(added, q) /\ \A r \in (m + 1)..(q - 1) : ~in_universe(added, r)

\* One trapezoid of skfuzzy's centroid, between neighbouring points x1 < x2
\* of the upsampled universe: <<6 * moment * area, 2 * area>>.
trapezoid(mfx, x1, x2) ==
    <<(x2 - x1) * (mfx[x1] * (2 * x1 + x2) + mfx[x2] * (x1 + 2 * x2)),
      (x2 - x1) * (mfx[x1] + mfx[x2])>>

Ratio(tot) == Frac(tot[1], 3 * tot[2] * Steps)

\* skfuzzy defuzz(x, mfx, 'centroid') over the upsampled universe: a
\* membership that is zero everywhere raises, otherwise the centroid of the
\* trapezoids.
centroid(added, mfx) ==
    IF \A m \in 0..(OutMax * Steps) : mfx[m] = 0
    THEN Raised("ValueError")
    ELSE Ratio(SumRange([m \in 0..(OutMax * Steps - 1) |->
                           IF in_universe(added, m)
                           THEN trapezoid(mfx, m, next_point(added, m))
                           ELSE <<0, 0>>],
                        0, OutMax * Steps - 1))

\* The largest element of a non-empty set of integers.
SetMax(S) == CHOOSE x \in S : \A y \in S : y <= x

\* CrispValueCalculator.find_memberships: the output membership over the
\* upsampled universe is the max over the terms of min(cut, term).
output_mf(terms, cut, added) ==
    [m \in 0..(OutMax * Steps) |->
        IF in_universe(added, m)
        THEN SetMax({ Min2(cut[t], interp_membership(terms[t], m)) : t \in OutTerms })
        ELSE 0] @@ <<>>

find_memberships(terms, cut, added) == centroid(added, output_mf(terms, cut, added))

\* CrispValueCalculator.defuzz with defuzzify_method = 'centroid': the
\* universe is upsampled with the crossing points of every term, and the
\* centroid of the aggregated output membership is returned.
defuzz(cut) ==
    find_memberships(calidad_estetica_mf, cut,
                     UNION { interp_universe(calidad_estetica_mf[t], cut[t]) : t \in OutTerms })

\* np.arange(0, 10.1, 0.1) restricted to the grid: the crisp inputs inside
\* the input universe.
universo_entrada == (InMin * Steps)..(InMax * Steps)

\* The cuts the rules can produce on the grid, and their centroids computed
\* once (TLC evaluates a constant definition a single time).
Cuts ==
    { calidad_ctrl(n, c, e) :
        n \in universo_entrada, c \in universo_entrada, e \in universo_entrada }
defuzz_table == [cut \in Cuts |-> defuzz(cut)] @@ <<>>

\* Fuzzify, fire the rules, defuzzify: what compute() does with the three
\* crisp inputs it finds in the simulation.
inference(n, c, e) == defuzz_table[calidad_ctrl(n, c, e)]

\* a/b <= c/d for a, c >= 0 and b, d > 0, without forming the products.
RECURSIVE FracLeq(_, _, _, _)
FracLeq(a, b, c, d) ==
    IF a \div b # c \div d THEN a \div b < c \div d
    ELSE IF a % b = 0 THEN TRUE
    ELSE IF c % d = 0 THEN FALSE
    ELSE FracLeq(d, c % d, b, a % b)

\* Comparisons of quality values (neither is a raised exception).
QLeq(p, q) == FracLeq(p.num, p.den, q.num, q.den)
QLess(p, q) == ~QLeq(q, p)
QInt(k) == [exc |-> "none", num |-> k, den |-> 1]

----------------------------------------------------------------------------
(* The simulation object and evaluate_quality *)

\* Requests the server handles at the same time.
NumRequests == 2
\* Calls made one after another on one engine.
MaxCalls == 3

\* The quality every error response of app.py carries.
DefaultCalidad == 50

Requests == 1..NumRequests

VARIABLES
    main,               \* "start" while app.py is being imported, then "serving"
    init_error,         \* TRUE once "Error al inicializar..." has been printed
    CALIDAD_SIMULADOR,  \* app.py's global: the simulation, or None
    files,              \* the upload folder: path -> None or <<image>>
    pc,                 \* each request's position in upload_and_evaluate_fuzzy_api
    loc,                \* each request's local variables
    resp,               \* each request's response
    args,               \* the arguments of a direct evaluate_quality call
    ret,                \* None before that call returns, <<result>> after
    prev,               \* None, or <<[args, ret]>> of the call before
    ncalls              \* direct calls made on the engine so far

srvVars == <<main, init_error, files, pc, loc, resp>>
callVars == <<args, ret, prev, ncalls>>
vars == <<main, init_error, CALIDAD_SIMULADOR, files, pc, loc, resp,
          args, ret, prev, ncalls>>

\* An optional value: <<>> is Python's None / an unset entry, <<v>> is v.
None == <<>>
Some(v) == <<v>>

\* ctrl.ControlSystemSimulation(calidad_ctrl): no input set, nothing computed.
\* built = FALSE stands for the global being None.
calidad_simulador ==
    [built |-> TRUE, input |-> [a \in Antecedents |-> None], output |-> None]
NoSimulador ==
    [built |-> FALSE, input |-> [a \in Antecedents |-> None], output |-> None]

\* set_input clipping at the last but one sample of the universe.
set_input_short(sim, key, value) ==
    [sim EXCEPT !.input[key] =
        Some(Max2(InMin * Steps, Min2(value, (InMax - 1) * Steps)))]

\* simulador.input[key] = value.  The simulation is built with the default
\* clip_to_bounds = True: a value outside the antecedent's universe is
\* replaced by the nearest end of the universe.
set_input(sim, key, value) ==
    [sim EXCEPT !.input[key] =
        Some(Max2(InMin * Steps, Min2(value, InMax * Steps)))]

\* simulador.compute(): ValueError unless every antecedent has an input;
\* otherwise fuzzify, fire the rules, defuzzify.
compute_result(sim) ==
    IF \E a \in Antecedents : sim.input[a] = None
    THEN Raised("ValueError")
    ELSE inference(sim.input["nitidez"][1],
                   sim.input["contraste"][1],
                   sim.input["exposicion"][1])

\* What compute() leaves in the simulation when its result is r: the
\* output is stored only when nothing was raised.
store(sim, r) == IF r.exc = "none" THEN [sim EXCEPT !.output = Some(r)] ELSE sim

\* The simulation after compute().
compute(sim) == store(sim, compute_result(sim))

\* Lines 62-65 of evaluate_quality once the inputs are set: compute, read
\* the output, return it (or let the exception through).
compute_and_return(sim, r) ==
    [sim |-> store(sim, r),
     result |-> IF r.exc = "none" THEN store(sim, r).output[1] ELSE r]
run_simulation(sim) == compute_and_return(sim, compute_result(sim))

\* evaluate_quality without its third assignment: exposicion keeps whatever
\* the simulation held before the call.
evaluate_quality_stale(nitidez_val, contraste_val, exposicion_val, simulador) ==
    run_simulation(set_input(set_input(simulador, "nitidez", nitidez_val),
                             "contraste", contraste_val))

\* evaluate_quality(nitidez_val, contraste_val, exposicion_val, simulador),
\* run without interruption: the simulation it leaves behind and what it
\* returns (or raises).
evaluate_quality(nitidez_val, contraste_val, exposicion_val, simulador) ==
    run_simulation(set_input(set_input(set_input(simulador, "nitidez", nitidez_val),
                                       "contraste", contraste_val),
                             "exposicion", exposicion_val))

----------------------------------------------------------------------------
(* The upload folder and the endpoint's helpers *)

\* The filenames a client sends.  secure_filename keeps "foto.jpg" and
\* "otra.jpg" and strips ".." down to the empty string.
Filenames == {"", "foto.jpg", "otra.jpg", ".."}
secure_filename(f) == IF f = ".." THEN "" ELSE f

\* os.path.join(UPLOAD_FOLDER, filename); joining the empty name gives the
\* folder itself.
UPLOAD_FOLDER == "uploads/"
filepath_of(filename) ==
    IF filename = "" THEN UPLOAD_FOLDER ELSE "uploads/" \o filename
FilePaths == {filepath_of(f) : f \in Filenames \ {"", ".."}}

\* The uploaded images: two that decode, with the metrics calculate_metrics
\* derives from them, and one that cv2.imread cannot load.
Images == {"nitida", "borrosa", "corrupta"}
metrics_of(img) ==
    IF img = "nitida"
    THEN [nitidez |-> InMax * Steps, contraste |-> InMax * Steps,
          exposicion |-> ((InMin + InMax) * Steps) \div 2]
    ELSE [nitidez |-> InMin * Steps, contraste |-> InMin * Steps,
          exposicion |-> ((InMin + InMax) * Steps) \div 2]

\* path_exists asked about the bare file name instead of the path: nothing
\* of that name exists in the working directory.
path_exists_bare(fs, path) == FALSE

\* os.path.exists(filepath): the folder always exists, a file when saved.
path_exists(fs, path) == path = UPLOAD_FOLDER \/ fs[path] # None

\* The responses of the endpoint.  kind "unhandled" is the server's own
\* answer to an exception that left the handler: no JSON body at all.
NoResp == [kind |-> "none", code |-> 0, calidad |-> None, error |-> "", status |-> ""]
ErrorResp(code, error, status) ==
    [kind |-> "json", code |-> code, calidad |-> Some(QInt(DefaultCalidad)),
     error |-> error, status |-> status]
SuccessResp(calidad_final) ==
    [kind |-> "json", code |-> 200, calidad |-> Some(calidad_final),
     error |-> "", status |-> "success"]
UnhandledResp ==
    [kind |-> "unhandled", code |-> 500, calidad |-> None, error |-> "", status |-> ""]

\* The except clause of the handler: the JSON answer for any exception
\* raised inside the try block.
except_handler == ErrorResp(500, "Error interno", "error")

NoLocals ==
    [filepath |-> "", image |-> "", saved |-> FALSE,
     nitidez_val |-> 0, contraste_val |-> 0, exposicion_val |-> 0]

----------------------------------------------------------------------------
(* Process start *)

Init ==
    /\ main = "start"
    /\ init_error = FALSE
    /\ CALIDAD_SIMULADOR = NoSimulador
    /\ files = [p \in FilePaths |-> None]
    /\ pc = [r \in Requests |-> "idle"]
    /\ loc = [r \in Requests |-> NoLocals]
    /\ resp = [r \in Requests |-> NoResp]
    /\ args = [nitidez |-> 0, contraste |-> 0, exposicion |-> 0]
    /\ ret = None
    /\ prev = None
    /\ ncalls = 0

\* startup_result with the global assigned before the failure: a simulation
\* is left behind although initialization raised.
startup_result_partial(raised) == calidad_simulador

\* What the try/except around initialize_fuzzy_system() leaves in the
\* global: the simulation, or None when it raised.
startup_result(raised) == IF raised THEN NoSimulador ELSE calidad_simulador

\* Module import: build the engine once; an exception is printed and the
\* server starts all the same.
Startup ==
    /\ main = "start"
    /\ \E raised \in BOOLEAN :
        /\ CALIDAD_SIMULADOR' = startup_result(raised)
        /\ init_error' = raised
    /\ main' = "serving"
    /\ UNCHANGED <<files, pc, loc, resp, callVars>>

----------------------------------------------------------------------------
(* upload_and_evaluate_fuzzy_api, one step per access to shared state *)

\* Leave the try block through the except clause.
Except(r) ==
    /\ resp' = [resp EXCEPT ![r] = except_handler]
    /\ pc' = [pc EXCEPT ![r] = "finally"]

\* The checks before the try block; a request that passes them has its
\* file path.
Receive(r) ==
    /\ main = "serving"
    /\ pc[r] = "idle"
    /\ \E hasFile \in BOOLEAN, filename \in Filenames, image \in Images :
        IF ~CALIDAD_SIMULADOR.built
        THEN /\ resp' = [resp EXCEPT ![r] =
                           ErrorResp(503, "Motor de Logica Difusa no disponible.", "")]
             /\ pc' = [pc EXCEPT ![r] = "done"]
             /\ loc' = loc
        ELSE IF ~hasFile
        THEN /\ resp' = [resp EXCEPT ![r] =
                           ErrorResp(400, "No se encontro el archivo de imagen.", "")]
             /\ pc' = [pc EXCEPT ![r] = "done"]
             /\ loc' = loc
        ELSE IF filename = ""
        THEN /\ resp' = [resp EXCEPT ![r] =
                           ErrorResp(400, "Nombre de archivo vacio.", "")]
             /\ pc' = [pc EXCEPT ![r] = "done"]
             /\ loc' = loc
        ELSE /\ loc' = [loc EXCEPT ![r].filepath = filepath_of(secure_filename(filename)),
                                   ![r].image = image]
             /\ pc' = [pc EXCEPT ![r] = "save"]
             /\ resp' = resp
    /\ UNCHANGED <<main, init_error, CALIDAD_SIMULADOR, files, callVars>>

\* file.save(filepath): opening a folder for writing raises; a write may
\* fail before the file is created or after part of it was written.  The
\* upload itself (the file object) is not used after this line.
Save(r) ==
    /\ pc[r] = "save"
    /\ LET path == loc[r].filepath IN
       IF path = UPLOAD_FOLDER
       THEN /\ Except(r)
            /\ loc' = [loc EXCEPT ![r].image = NoLocals.image]
            /\ files' = files
       ELSE \E outcome \in {"saved", "not_created", "partial"} :
            CASE outcome = "saved" ->
                   /\ files' = [files EXCEPT ![path] = Some(loc[r].image)]
                   /\ loc' = [loc EXCEPT ![r].saved = TRUE, ![r].image = NoLocals.image]
                   /\ pc' = [pc EXCEPT ![r] = "metrics"]
                   /\ resp' = resp
              [] outcome = "not_created" ->
                   /\ Except(r)
                   /\ loc' = [loc EXCEPT ![r].image = NoLocals.image]
                   /\ files' = files
              [] outcome = "partial" ->
                   /\ files' = [files EXCEPT ![path] = Some("corrupta")]
                   /\ loc' = [loc EXCEPT ![r].saved = TRUE, ![r].image = NoLocals.image]
                   /\ Except(r)
    /\ UNCHANGED <<main, init_error, CALIDAD_SIMULADOR, callVars>>

\* calculate_metrics(filepath): reads whatever is at the path now;
\* FileNotFoundError when cv2.imread returns None.
Metrics(r) ==
    /\ pc[r] = "metrics"
    /\ LET f == files[loc[r].filepath] IN
       IF f = None \/ f = Some("corrupta")
       THEN /\ Except(r)
            /\ loc' = loc
       ELSE /\ loc' = [loc EXCEPT ![r].nitidez_val = metrics_of(f[1]).nitidez,
                                  ![r].contraste_val = metrics_of(f[1]).contraste,
                                  ![r].exposicion_val = metrics_of(f[1]).exposicion]
            /\ pc' = [pc EXCEPT ![r] = "ev_nitidez"]
            /\ resp' = resp
    /\ UNCHANGED <<main, init_error, CALIDAD_SIMULADOR, files, callVars>>

\* simulador.input['nitidez'] = nitidez_val
EvNitidez(r) ==
    /\ pc[r] = "ev_nitidez"
    /\ CALIDAD_SIMULADOR' = set_input(CALIDAD_SIMULADOR, "nitidez", loc[r].nitidez_val)
    /\ pc' = [pc EXCEPT ![r] = "ev_contraste"]
    /\ UNCHANGED <<main, init_error, files, loc, resp, callVars>>

\* simulador.input['contraste'] = contraste_val
EvContraste(r) ==
    /\ pc[r] = "ev_contraste"
    /\ CALIDAD_SIMULADOR' = set_input(CALIDAD_SIMULADOR, "contraste", loc[r].contraste_val)
    /\ pc' = [pc EXCEPT ![r] = "ev_exposicion"]
    /\ UNCHANGED <<main, init_error, files, loc, resp, callVars>>

\* simulador.input['exposicion'] = exposicion_val
EvExposicion(r) ==
    /\ pc[r] = "ev_exposicion"
    /\ CALIDAD_SIMULADOR' = set_input(CALIDAD_SIMULADOR, "exposicion", loc[r].exposicion_val)
    /\ pc' = [pc EXCEPT ![r] = "ev_compute"]
    /\ UNCHANGED <<main, init_error, files, loc, resp, callVars>>

\* simulador.compute()
EvCompute(r) ==
    /\ pc[r] = "ev_compute"
    /\ CALIDAD_SIMULADOR' = compute(CALIDAD_SIMULADOR)
    /\ IF compute_result(CALIDAD_SIMULADOR).exc = "none"
       THEN /\ pc' = [pc EXCEPT ![r] = "ev_output"]
            /\ resp' = resp
       ELSE Except(r)
    /\ UNCHANGED <<main, init_error, files, loc, callVars>>

\* calidad_final = simulador.output['calidad_estetica'], and the success
\* answer built from it.
EvOutput(r) ==
    /\ pc[r] = "ev_output"
    /\ resp' = [resp EXCEPT ![r] = SuccessResp(CALIDAD_SIMULADOR.output[1])]
    /\ pc' = [pc EXCEPT ![r] = "finally"]
    /\ UNCHANGED <<main, init_error, CALIDAD_SIMULADOR, files, loc, callVars>>

\* finally: if os.path.exists(filepath)
Finally(r) ==
    /\ pc[r] = "finally"
    /\ pc' = [pc EXCEPT ![r] =
                IF path_exists(files, loc[r].filepath) THEN "remove" ELSE "done"]
    /\ UNCHANGED <<main, init_error, CALIDAD_SIMULADOR, files, loc, resp, callVars>>

\* os.remove(filepath): raises on the folder and on a file another request
\* removed since the check; the exception leaves the handler and replaces
\* the answer that was about to be returned.
Remove(r) ==
    /\ pc[r] = "remove"
    /\ LET path == loc[r].filepath IN
       IF path # UPLOAD_FOLDER /\ files[path] # None
       THEN /\ files' = [files EXCEPT ![path] = None]
            /\ resp' = resp
       ELSE /\ resp' = [resp EXCEPT ![r] = UnhandledResp]
            /\ files' = files
    /\ pc' = [pc EXCEPT ![r] = "done"]
    /\ UNCHANGED <<main, init_error, CALIDAD_SIMULADOR, loc, callVars>>

Next ==
    \/ Startup
    \/ \E r \in Requests :
         \/ Receive(r)
         \/ Save(r)
         \/ Metrics(r)
         \/ EvNitidez(r)
         \/ EvContraste(r)
         \/ EvExposicion(r)
         \/ EvCompute(r)
         \/ EvOutput(r)
         \/ Finally(r)
         \/ Remove(r)

Spec == Init /\ [][Next]_vars

----------------------------------------------------------------------------
(* One call of evaluate_quality on a fresh engine, over the whole grid *)

\* The grid inside the universe and one value beyond each end of it.
Inputs == universo_entrada \cup {(InMin - Margin) * Steps, (InMax + Margin) * Steps}

Serving ==
    /\ main = "serving"
    /\ init_error = FALSE
    /\ CALIDAD_SIMULADOR = calidad_simulador
    /\ files = [p \in FilePaths |-> None]
    /\ pc = [r \in Requests |-> "idle"]
    /\ loc = [r \in Requests |-> NoLocals]
    /\ resp = [r \in Requests |-> NoResp]

InitEval ==
    /\ Serving
    /\ args \in [nitidez : Inputs, contraste : Inputs, exposicion : Inputs]
    /\ ret = None
    /\ prev = None
    /\ ncalls = 0

Evaluate ==
    /\ ret = None
    /\ \E e \in {evaluate_quality(args.nitidez, args.contraste, args.exposicion,
                                   CALIDAD_SIMULADOR)} :
           /\ CALIDAD_SIMULADOR' = e.sim
           /\ ret' = Some(e.result)
    /\ ncalls' = ncalls + 1
    /\ UNCHANGED <<args, prev, srvVars>>

NextEval == Evaluate

SpecEval == InitEval /\ [][NextEval]_vars

----------------------------------------------------------------------------
(* Calls of evaluate_quality one after another on the same engine *)

\* Inputs of the sequential calls: the lower end and the middle of the
\* universe and a value beyond its upper end.
SeqInputs ==
    {InMin * Steps, ((InMin + InMax) * Steps) \div 2, (InMax + Margin) * Steps}

InitSeq ==
    /\ Serving
    /\ args = [nitidez |-> 0, contraste |-> 0, exposicion |-> 0]
    /\ ret = None
    /\ prev = None
    /\ ncalls = 0

Call ==
    /\ ncalls < MaxCalls
    /\ \E n \in SeqInputs, c \in SeqInputs, x \in SeqInputs :
        \E e \in {evaluate_quality(n, c, x, CALIDAD_SIMULADOR)} :
            /\ args' = [nitidez |-> n, contraste |-> c, exposicion |-> x]
            /\ CALIDAD_SIMULADOR' = e.sim
            /\ ret' = Some(e.result)
    /\ prev' = IF ret = None THEN None ELSE Some([args |-> args, ret |-> ret[1]])
    /\ ncalls' = ncalls + 1
    /\ UNCHANGED srvVars

NextSeq == Call

SpecSeq == InitSeq /\ [][NextSeq]_vars

----------------------------------------------------------------------------
(* Properties *)

\* The end of the input universe nearest to v.
Nearest(v) == Max2(InMin * Steps, Min2(v, InMax * Steps))
InUniverse(v) == InMin * Steps <= v /\ v <= InMax * Steps
Mid == ((InMin + InMax) * Steps) \div 2

\* C1: on one engine, every call of evaluate_quality returns the value the
\* inference gives for that call's own three inputs, whatever the calls
\* before it were; a call that repeats the inputs of the call before it
\* returns the same value.
C1_InputsDetermineOutput ==
    ret # None =>
        /\ ret[1] = inference(Nearest(args.nitidez), Nearest(args.contraste),
                              Nearest(args.exposicion))
        /\ (prev # None /\ prev[1].args = args => prev[1].ret = ret[1])

\* A second call with the inputs of the first has returned a quality.
C1_Witness ==
    /\ ncalls >= 2
    /\ prev # None
    /\ ret # None
    /\ prev[1].args = args
    /\ ret[1].exc = "none"

\* C2 (as claimed): every successful response carries the quality of the
\* request's own three metrics.
C2_OwnInputsOnly ==
    \A r \in Requests :
        pc[r] = "done" /\ resp[r].status = "success" =>
            resp[r].calidad = Some(inference(loc[r].nitidez_val, loc[r].contraste_val,
                                             loc[r].exposicion_val))

\* C3: a call with an input outside [0, 10] returns, without raising, what
\* the inference gives with that input moved to the nearest end of the
\* universe.
C3_Clamping ==
    (/\ ret # None
     /\ \/ ~InUniverse(args.nitidez)
        \/ ~InUniverse(args.contraste)
        \/ ~InUniverse(args.exposicion)) =>
        /\ ret[1].exc = "none"
        /\ ret[1] = inference(Nearest(args.nitidez), Nearest(args.contraste),
                              Nearest(args.exposicion))

\* Sharpness above the universe, the other two inputs inside it, and the
\* call returned the quality of sharpness 10.
C3_Witness ==
    /\ ret # None
    /\ args.nitidez = (InMax + Margin) * Steps
    /\ InUniverse(args.contraste)
    /\ InUniverse(args.exposicion)
    /\ ret[1] = inference(InMax * Steps, args.contraste, args.exposicion)

\* C4: for inputs inside the universe the call raises nothing, returns a
\* quality within [0, 100], and at least one of the eight rules fired.
C4_AlwaysDefined ==
    (/\ ret # None
     /\ InUniverse(args.nitidez)
     /\ InUniverse(args.contraste)
     /\ InUniverse(args.exposicion)) =>
        /\ ret[1].exc = "none"
        /\ QLeq(QInt(0), ret[1])
        /\ QLeq(ret[1], QInt(OutMax))
        /\ LET n == args.nitidez
               c == args.contraste
               e == args.exposicion
           IN  \/ rule1(n, c, e) > 0 \/ rule2(n, c, e) > 0
               \/ rule3(n, c, e) > 0 \/ rule4(n, c, e) > 0
               \/ rule5(n, c, e) > 0 \/ rule6(n, c, e) > 0
               \/ rule7(n, c, e) > 0 \/ rule8(n, c, e) > 0

\* The call at (10, 10, 5), where rule2 is the only rule that fires, has
\* returned a quality.
C4_Witness ==
    /\ ret # None
    /\ args = [nitidez |-> InMax * Steps, contraste |-> InMax * Steps, exposicion |-> Mid]
    /\ ret[1].exc = "none"
    /\ rule2(args.nitidez, args.contraste, args.exposicion) > 0
    /\ rule6(args.nitidez, args.contraste, args.exposicion) = 0

\* C7: with contrast and exposure at 5, the quality returned for a
\* sharpness is at least the quality of every smaller sharpness of [0, 10].
C7_MonotoneInSharpness ==
    (/\ ret # None
     /\ InUniverse(args.nitidez)
     /\ args.contraste = Mid
     /\ args.exposicion = Mid) =>
        \A s1 \in universo_entrada :
            s1 <= args.nitidez => QLeq(inference(s1, Mid, Mid), ret[1])

\* The call at (10, 5, 5) returned strictly more than (0, 5, 5) gives.
C7_Witness ==
    /\ ret # None
    /\ args = [nitidez |-> InMax * Steps, contraste |-> Mid, exposicion |-> Mid]
    /\ QLess(inference(InMin * Steps, Mid, Mid), ret[1])

\* C8: (8, 8, 0) and (8, 8, 10) both return a quality below 50, and the
\* same one.
C8_ExposureSymmetry ==
    (/\ ret # None
     /\ args.nitidez = 8 * Steps
     /\ args.contraste = 8 * Steps
     /\ args.exposicion \in {InMin * Steps, InMax * Steps}) =>
        /\ ret[1].exc = "none"
        /\ QLess(ret[1], QInt(50))
        /\ ret[1] = inference(8 * Steps, 8 * Steps,
                              (InMin + InMax) * Steps - args.exposicion)

\* The call at (8, 8, 10) returned a quality below 50.
C8_Witness ==
    /\ ret # None
    /\ args = [nitidez |-> 8 * Steps, contraste |-> 8 * Steps,
               exposicion |-> InMax * Steps]
    /\ ret[1].exc = "none"
    /\ QLess(ret[1], QInt(50))

\* C9: (10, 10, 5) returns a quality above 70 and (0, 0, 5) one below 50.
C9_Extremes ==
    ret # None =>
        /\ args = [nitidez |-> InMax * Steps, contraste |-> InMax * Steps,
                   exposicion |-> Mid]
             => ret[1].exc = "none" /\ QLess(QInt(70), ret[1])
        /\ args = [nitidez |-> InMin * Steps, contraste |-> InMin * Steps,
                   exposicion |-> Mid]
             => ret[1].exc = "none" /\ QLess(ret[1], QInt(50))

\* The call at (0, 0, 5) returned a quality.
C9_Witness ==
    /\ ret # None
    /\ args = [nitidez |-> InMin * Steps, contraste |-> InMin * Steps, exposicion |-> Mid]
    /\ ret[1].exc = "none"
    /\ QLess(ret[1], QInt(50))

\* C5 (as claimed): every finished request whose response is not a success
\* carries the default quality 50.0 and an error message.
C5_ErrorsCarryDefault ==
    \A r \in Requests :
        pc[r] = "done" /\ resp[r].status # "success" =>
            /\ resp[r].calidad = Some(QInt(DefaultCalidad))
            /\ resp[r].error # ""

\* C6 (as claimed): after a failed initialization the process holds no
\* engine and handles no request.
C6_FatalInitFailure ==
    init_error =>
        /\ CALIDAD_SIMULADOR = NoSimulador
        /\ \A r \in Requests : pc[r] = "idle"

\* C6 (amended): after a failed initialization the process holds no engine
\* and keeps serving; every request it handles is answered at once with
\* 503, an error message and the default quality, without saving a file or
\* touching an engine.
C6_InitFailureServes503 ==
    init_error =>
        /\ CALIDAD_SIMULADOR = NoSimulador
        /\ \A r \in Requests :
            /\ pc[r] \in {"idle", "done"}
            /\ pc[r] = "done" =>
                 /\ resp[r] = ErrorResp(503, "Motor de Logica Difusa no disponible.", "")
                 /\ ~loc[r].saved

\* Initialization failed and a request has been answered.
C6_Witness ==
    /\ init_error
    /\ main = "serving"
    /\ \E r \in Requests : pc[r] = "done" /\ resp[r].code = 503

\* A request between its successful save and the end of its finally block.
HoldsFile(r) ==
    /\ loc[r].saved
    /\ pc[r] \in {"metrics", "ev_nitidez", "ev_contraste", "ev_exposicion",
                  "ev_compute", "ev_output", "finally", "remove"}

\* C10: once a request that saved its upload has finished, no file is left
\* at its path unless another request that saved there is still running;
\* when every request has finished, the upload folder holds no file.
C10_UploadsRemoved ==
    /\ \A r \in Requests :
        (pc[r] = "done" /\ loc[r].saved /\ files[loc[r].filepath] # None) =>
            \E o \in Requests \ {r} :
                HoldsFile(o) /\ loc[o].filepath = loc[r].filepath
    /\ (\A r \in Requests : pc[r] = "done") =>
            \A p \in FilePaths : files[p] = None

\* Two requests saved to the same path, one answered with success and one
\* with an error, both have finished.
C10_Witness ==
    /\ \A r \in Requests : pc[r] = "done" /\ loc[r].saved
    /\ \E r, o \in Requests :
        /\ r # o
        /\ loc[r].filepath = loc[o].filepath
        /\ resp[r].status = "success"
        /\ resp[o].status = "error"

====
